---- MODULE Spec2Model ----
(***************************************************************************)
(* Model of src/src/ai.ts: the model registry LLM_MODELS, runPrompt and    *)
(* the self-correcting loop runGeminiThinkingPrompt.  Several runPrompt    *)
(* invocations are in progress at once; each suspends at its provider      *)
(* call (await generateText / await generateObject) and resumes when the   *)
(* provider answers.  Between two awaits an invocation runs without        *)
(* interruption (one JavaScript job), so each action is one such job.      *)
(***************************************************************************)
EXTENDS Integers, Sequences, FiniteSets, TLC

(* ---------------------------------------------------------------------- *)
(* Bounds of the model                                                     *)
(* ---------------------------------------------------------------------- *)

\* Number of runPrompt invocations the caller issues over one behaviour.
MaxStarted == 2

\* The invocations that can be in progress at the same time.
Invocations == {1, 2}

(* ---------------------------------------------------------------------- *)
(* Strings.  TLC cannot look inside a string, so the characters of every   *)
(* model name used below are tabulated, and String.prototype.includes is   *)
(* computed on the characters.                                             *)
(* ---------------------------------------------------------------------- *)

Chars ==
     "claude-3-5-sonnet-20240620" :> <<"c", "l", "a", "u", "d", "e", "-", "3", "-", "5", "-", "s", "o", "n", "n", "e", "t", "-", "2", "0", "2", "4", "0", "6", "2", "0">> @@
     "claude-3-5-sonnet-20241022" :> <<"c", "l", "a", "u", "d", "e", "-", "3", "-", "5", "-", "s", "o", "n", "n", "e", "t", "-", "2", "0", "2", "4", "1", "0", "2", "2">> @@
     "gpt-4o-mini" :> <<"g", "p", "t", "-", "4", "o", "-", "m", "i", "n", "i">> @@
     "o1" :> <<"o", "1">> @@
     "o1-mini" :> <<"o", "1", "-", "m", "i", "n", "i">> @@
     "o3-mini" :> <<"o", "3", "-", "m", "i", "n", "i">> @@
     "gemini-2.0-flash-001" :> <<"g", "e", "m", "i", "n", "i", "-", "2", ".", "0", "-", "f", "l", "a", "s", "h", "-", "0", "0", "1">> @@
     "gemini-2.0-flash-lite-preview-02-05" :> <<"g", "e", "m", "i", "n", "i", "-", "2", ".", "0", "-", "f", "l", "a", "s", "h", "-", "l", "i", "t", "e", "-", "p", "r", "e", "v", "i", "e", "w", "-", "0", "2", "-", "0", "5">> @@
     "gemini-1.5-flash" :> <<"g", "e", "m", "i", "n", "i", "-", "1", ".", "5", "-", "f", "l", "a", "s", "h">> @@
     "gemini-1.5-flash-8b" :> <<"g", "e", "m", "i", "n", "i", "-", "1", ".", "5", "-", "f", "l", "a", "s", "h", "-", "8", "b">> @@
     "gemini-1.5-pro" :> <<"g", "e", "m", "i", "n", "i", "-", "1", ".", "5", "-", "p", "r", "o">> @@
     "gemini-2.0-pro-exp-02-05" :> <<"g", "e", "m", "i", "n", "i", "-", "2", ".", "0", "-", "p", "r", "o", "-", "e", "x", "p", "-", "0", "2", "-", "0", "5">> @@
     "gemini-2.0-flash-thinking-exp-01-21" :> <<"g", "e", "m", "i", "n", "i", "-", "2", ".", "0", "-", "f", "l", "a", "s", "h", "-", "t", "h", "i", "n", "k", "i", "n", "g", "-", "e", "x", "p", "-", "0", "1", "-", "2", "1">> @@
     "gpt-4o" :> <<"g", "p", "t", "-", "4", "o">> @@
     "gemini-thinking" :> <<"g", "e", "m", "i", "n", "i", "-", "t", "h", "i", "n", "k", "i", "n", "g">> @@
     "thinking-exp" :> <<"t", "h", "i", "n", "k", "i", "n", "g", "-", "e", "x", "p">> @@
     "gemini" :> <<"g", "e", "m", "i", "n", "i">> @@
     "thinking" :> <<"t", "h", "i", "n", "k", "i", "n", "g">>

\* String.prototype.includes: sub occurs in s as a contiguous run of characters.
Includes(s, sub) ==
    LET cs == Chars[s]
        ct == Chars[sub]
    IN  \E k \in 1..(Len(cs) - Len(ct) + 1) : SubSeq(cs, k, k + Len(ct) - 1) = ct

\* The value of an absent optional string (systemPrompt?: string).
Undefined == "undefined"

(* ---------------------------------------------------------------------- *)
(* The model registry                                                      *)
(* ---------------------------------------------------------------------- *)

\* Variant: an entry was pasted twice, the second time under another provider.
LLM_MODELS_Duplicated ==
    << [name |-> "claude-3-5-sonnet-20240620",          createAi |-> "createAnthropic"],
       [name |-> "claude-3-5-sonnet-20241022",          createAi |-> "createAnthropic"],
       [name |-> "gpt-4o-mini",                         createAi |-> "createOpenAI"],
       [name |-> "o1",                                  createAi |-> "createOpenAI"],
       [name |-> "o1-mini",                             createAi |-> "createOpenAI"],
       [name |-> "o1-mini",                             createAi |-> "createAnthropic"],
       [name |-> "gemini-2.0-flash-001",                createAi |-> "createGoogleGenerativeAI"],
       [name |-> "gemini-2.0-flash-lite-preview-02-05", createAi |-> "createGoogleGenerativeAI"],
       [name |-> "gemini-1.5-flash",                    createAi |-> "createGoogleGenerativeAI"],
       [name |-> "gemini-1.5-flash-8b",                 createAi |-> "createGoogleGenerativeAI"],
       [name |-> "gemini-1.5-pro",                      createAi |-> "createGoogleGenerativeAI"],
       [name |-> "gemini-2.0-pro-exp-02-05",            createAi |-> "createGoogleGenerativeAI"],
       [name |-> "gemini-2.0-flash-thinking-exp-01-21", createAi |-> "createGoogleGenerativeAI"] >>

LLM_MODELS ==
    << [name |-> "claude-3-5-sonnet-20240620",          createAi |-> "createAnthropic"],
       [name |-> "claude-3-5-sonnet-20241022",          createAi |-> "createAnthropic"],
       [name |-> "gpt-4o-mini",                         createAi |-> "createOpenAI"],
       [name |-> "o1",                                  createAi |-> "createOpenAI"],
       [name |-> "o1-mini",                             createAi |-> "createOpenAI"],
       [name |-> "o3-mini",                             createAi |-> "createOpenAI"],
       [name |-> "gemini-2.0-flash-001",                createAi |-> "createGoogleGenerativeAI"],
       [name |-> "gemini-2.0-flash-lite-preview-02-05", createAi |-> "createGoogleGenerativeAI"],
       [name |-> "gemini-1.5-flash",                    createAi |-> "createGoogleGenerativeAI"],
       [name |-> "gemini-1.5-flash-8b",                 createAi |-> "createGoogleGenerativeAI"],
       [name |-> "gemini-1.5-pro",                      createAi |-> "createGoogleGenerativeAI"],
       [name |-> "gemini-2.0-pro-exp-02-05",            createAi |-> "createGoogleGenerativeAI"],
       [name |-> "gemini-2.0-flash-thinking-exp-01-21", createAi |-> "createGoogleGenerativeAI"] >>

\* The array that the binding LLM_MODELS holds while the process runs.
VARIABLE registry

RegistryNames == { LLM_MODELS[k].name : k \in 1..Len(LLM_MODELS) }

\* Names a configuration can carry that are not in the registry: a proper
\* prefix of a registry name, a name with both marker substrings, a fragment.
UnknownNames == { "gpt-4o", "gemini-thinking", "thinking-exp" }

\* config.llmModel and config.llmApiKey as the configuration loader supplies them.
Configs == [ llmModel : RegistryNames \cup UnknownNames, llmApiKey : {"sk-key"} ]

\* The result of Array.prototype.find when no element matches.
UndefinedModel == [undefined |-> TRUE]

\* Variant: the lookup matches by substring, m.name.includes(config.llmModel).
NameMatchesIncludes(m, llmModel) == Includes(m.name, llmModel)

\* The predicate of the lookup, (m) => m.name === config.llmModel.
NameMatches(m, llmModel) == m.name = llmModel

\* LLM_MODELS.find(...): the first matching entry, or undefined.
Find(llmModel) ==
    LET hits == { k \in 1..Len(registry) : NameMatches(registry[k], llmModel) }
    IN  IF hits = {} THEN UndefinedModel
        ELSE registry[CHOOSE k \in hits : \A h \in hits : k <= h]

\* model.createAi({ apiKey: config.llmApiKey }): a new provider client.
CreateAi(model, apiKey) == [createAi |-> model.createAi, apiKey |-> apiKey]

NoClient == [none |-> TRUE]

\* Variant: only the provider marker is tested, includes("gemini").
IsGeminiThinkingGeminiOnly(model) == Includes(model.name, "gemini")

\* Variant: either marker is enough, includes("gemini") || includes("thinking").
IsGeminiThinkingEither(model) ==
    Includes(model.name, "gemini") \/ Includes(model.name, "thinking")

\* model.name.includes("gemini") && model.name.includes("thinking")
IsGeminiThinking(model) ==
    Includes(model.name, "gemini") /\ Includes(model.name, "thinking")

(* ---------------------------------------------------------------------- *)
(* Inputs of runPrompt and answers of the provider                         *)
(* ---------------------------------------------------------------------- *)

\* z.object({ x: z.number() })
SchemaX == [shape |-> [x |-> "number"]]

\* The caller's arguments; systemPrompt is optional and left out here.
Requests ==
    { [prompt |-> "Review this diff", systemPrompt |-> Undefined, schema |-> SchemaX] }

\* What generateText resolves with: the raw text and the usage metadata.
TextResponses ==
    { [text |-> "not json",          usage |-> [totalTokens |-> 11]],
      [text |-> "{\"x\":\"one\"}",   usage |-> [totalTokens |-> 12]],
      [text |-> "{\"x\":1}",         usage |-> [totalTokens |-> 13]],
      [text |-> "{\"x\":2,\"y\":3}", usage |-> [totalTokens |-> 14]] }

\* What generateObject resolves with: the structured object and the usage.
ObjectResponses ==
    { [object |-> [x |-> 1], usage |-> [totalTokens |-> 21]],
      [object |-> [x |-> 2], usage |-> [totalTokens |-> 22]] }

\* What a provider call rejects with (network failure, provider refusal).
ProviderErrors == { [message |-> "fetch failed"], [message |-> "429 Too Many Requests"] }

(* ---------------------------------------------------------------------- *)
(* JSON.parse and schema.parse on the texts above                          *)
(* ---------------------------------------------------------------------- *)

JNum(n) == [type |-> "number", num |-> n]
JStr(s) == [type |-> "string", str |-> s]
JObj(p) == [type |-> "object", props |-> p]

Threw(message) == [ok |-> FALSE, message |-> message]
Returned(value) == [ok |-> TRUE, value |-> value]

\* JSON.parse(text): the parsed value, or a SyntaxError with its message.
JSONParse(text) ==
    CASE text = "{\"x\":1}"         -> Returned(JObj([x |-> JNum(1)]))
      [] text = "{\"x\":2,\"y\":3}" -> Returned(JObj([x |-> JNum(2), y |-> JNum(3)]))
      [] text = "{\"x\":\"one\"}"   -> Returned(JObj([x |-> JStr("one")]))
      [] text = "not json"          -> Threw("Unexpected token o in JSON at position 1")
      [] OTHER                      -> Threw("Unexpected token in JSON at position 0")

\* schema.parse(json) for a z.object schema: every key of the shape must be
\* present with the declared type; keys outside the shape are stripped.
SchemaParse(schema, json) ==
    LET keys == DOMAIN schema.shape
    IN  IF json.type # "object"
          THEN Threw("Expected object, received " \o json.type)
        ELSE IF \E k \in keys : k \notin DOMAIN json.props
          THEN Threw("Required")
        ELSE IF \E k \in keys : json.props[k].type # schema.shape[k]
          THEN LET k == CHOOSE k \in keys : json.props[k].type # schema.shape[k]
               IN  Threw("Expected " \o schema.shape[k] \o ", received " \o json.props[k].type)
        ELSE Returned([k \in keys |-> json.props[k].num])

\* Variant: the parsed JSON is returned without schema.parse.
ParseResponseNoSchema(schema, text) == JSONParse(text)

\* The try block of runGeminiThinkingPrompt: JSON.parse, then schema.parse.
ParseResponse(schema, text) ==
    LET json == JSONParse(text)
    IN  IF json.ok THEN SchemaParse(schema, json.value) ELSE json

\* JSON.stringify(schema.shape, null, 2): the keys with their types.
SchemaDescription(schema) == [k \in DOMAIN schema.shape |-> <<k, schema.shape[k]>>]

(* ---------------------------------------------------------------------- *)
(* State                                                                   *)
(* ---------------------------------------------------------------------- *)

VARIABLES
    config,   \* the configuration module: llmModel and llmApiKey
    DEBUG,    \* process.env.DEBUG as each invocation's process has it
    started,  \* number of runPrompt invocations issued so far
    inv       \* per invocation: its position, its frame and what it has done

vars == <<registry, config, DEBUG, started, inv>>

NoRequest == [none |-> TRUE]
NoResult  == [none |-> TRUE]

\* An invocation slot before runPrompt is called in it.
\*   pc             "idle", "generateText" (suspended at line 115),
\*                  "generateObject" (suspended at line 167), "fulfilled", "rejected"
\*   args           prompt, systemPrompt, schema as the caller passed them
\*   model, llm     the registry entry found and the client constructed
\*   retryCount, previousErrors   parameters of the current activation of
\*                  runGeminiThinkingPrompt
\*   clients        the provider clients this invocation constructed
\*   calls          the provider calls this invocation issued, in order
\*   responses      what the provider answered to them, in order
\*   result         the value or error the promise settled with
\*   log            the lines this invocation passed to info()
Idle ==
    [ pc |-> "idle", args |-> NoRequest, model |-> UndefinedModel, llm |-> NoClient,
      retryCount |-> 0, previousErrors |-> <<>>,
      clients |-> <<>>, calls |-> <<>>, responses |-> <<>>,
      result |-> NoResult, log |-> <<>> ]

Suspended(f) == f.pc \in {"generateText", "generateObject"}
Settled(f)   == f.pc \in {"fulfilled", "rejected"}

Value(v) == [value |-> v]
Error(e) == [error |-> e]

Resolved(r) == [settled |-> "resolved", with |-> r]
Rejected(e) == [settled |-> "rejected", with |-> e]

(* ---------------------------------------------------------------------- *)
(* runGeminiThinkingPrompt                                                 *)
(* ---------------------------------------------------------------------- *)

MAX_RETRIES == 5

\* Variant: the default array is one module-level array that the
\* invocations share, so a new invocation starts with what is in it.
SharedPreviousErrors ==
    LET busy == { i \in Invocations : inv[i].previousErrors # <<>> }
    IN  IF busy = {} THEN <<>>
        ELSE inv[CHOOSE i \in busy : \A j \in busy : i <= j].previousErrors

\* Variant: the counter starts at one, retryCount = 1.
DefaultRetryCountOne == 0 + 1

\* Default parameter values: retryCount = 0, previousErrors = [].
DefaultRetryCount == 0
DefaultPreviousErrors == <<>>

\* Variant: the message embeds the error of the first attempt, previousErrors[0].
LatestErrorFirst(previousErrors) ==
    IF Len(previousErrors) > 0 THEN previousErrors[1].error ELSE "undefined"

\* previousErrors[previousErrors.length - 1]?.error inside a template literal.
LatestError(previousErrors) ==
    IF Len(previousErrors) > 0 THEN previousErrors[Len(previousErrors)].error
    ELSE "undefined"

\* The Error thrown when the retries are used up; the message is kept as
\* the parts the template literal joins.
RetryExhaustedError(previousErrors) ==
    [message |-> << "Failed to parse AI response as JSON after ", ToString(MAX_RETRIES),
                    " attempts. Latest error: ", LatestError(previousErrors) >>]

\* The Error thrown for a model name that is not in the registry.
UnknownModelError(llmModel) == [message |-> <<"Unknown LLM model: ", llmModel>>]

\* Variant: the comparison is strict, retryCount > MAX_RETRIES.
RetriesExhaustedStrict(retryCount) == retryCount > MAX_RETRIES

\* The test at the head of runGeminiThinkingPrompt.
RetriesExhausted(retryCount) == retryCount >= MAX_RETRIES

\* Variant: the transcript shows the latest failure only.
PreviousAttemptsLatestOnly(previousErrors) ==
    << [attempt |-> Len(previousErrors),
        error |-> previousErrors[Len(previousErrors)].error,
        response |-> previousErrors[Len(previousErrors)].response] >>

\* The transcript appended to the system prompt when previousErrors is not empty.
PreviousAttempts(previousErrors) ==
    [k \in 1..Len(previousErrors) |->
        [attempt |-> k, error |-> previousErrors[k].error,
         response |-> previousErrors[k].response]]

\* enhancedSystemPrompt: the caller's system prompt (or ""), the format
\* instruction with the schema description and, when there were failures,
\* the transcript of the previous attempts with the request to fix them.
EnhancedSystemPrompt(systemPrompt, schema, previousErrors) ==
    [ systemPrompt      |-> IF systemPrompt = Undefined THEN "" ELSE systemPrompt,
      schemaDescription |-> SchemaDescription(schema),
      hasTranscript     |-> Len(previousErrors) > 0,
      previousAttempts  |-> IF Len(previousErrors) > 0
                              THEN PreviousAttempts(previousErrors) ELSE <<>> ]

\* generateText({ model: llm(model.name), prompt, system: enhancedSystemPrompt })
GenerateTextCall(f) ==
    [ fn |-> "generateText", llm |-> f.llm, modelId |-> f.model.name,
      prompt |-> f.args.prompt,
      system |-> EnhancedSystemPrompt(f.args.systemPrompt, f.args.schema, f.previousErrors) ]

\* generateObject({ model: llm(model.name), prompt, system: systemPrompt, schema })
GenerateObjectCall(f) ==
    [ fn |-> "generateObject", llm |-> f.llm, modelId |-> f.model.name,
      prompt |-> f.args.prompt, system |-> f.args.systemPrompt, schema |-> f.args.schema ]

\* info(`usage: ...`) and info(`Failed to parse AI response as JSON: ...`)
UsageLine(usage)     == [line |-> "usage", usage |-> usage]
FailureLine(message) == [line |-> "Failed to parse AI response as JSON", error |-> message]

\* Variant: the usage line is written whether or not the flag is set.
LogUsageAlways(log, debug, usage) == Append(log, UsageLine(usage))

\* if (process.env.DEBUG) info(usage)
LogUsage(log, debug, usage) == IF debug THEN Append(log, UsageLine(usage)) ELSE log

\* Variant: the new failure is put in front, [{...}, ...previousErrors].
NextPreviousErrorsPrepend(previousErrors, message, text) ==
    <<[error |-> message, response |-> text]>> \o previousErrors

\* Variant: the counter is one module-level variable that every invocation
\* increments.
NextRetryCountShared(retryCount) ==
    1 + (CHOOSE n \in { inv[i].retryCount : i \in Invocations } :
            \A i \in Invocations : inv[i].retryCount <= n)

\* The arguments of the recursive call in the catch block.
NextRetryCount(retryCount) == retryCount + 1
NextPreviousErrors(previousErrors, message, text) ==
    Append(previousErrors, [error |-> message, response |-> text])

\* Variant: the request is hedged, a second generateText is issued along
\* with the first and not awaited.
RunGeminiThinkingPromptHedged(f, retryCount, previousErrors) ==
    LET g == [f EXCEPT !.retryCount = retryCount, !.previousErrors = previousErrors]
    IN  IF RetriesExhausted(retryCount)
          THEN [g EXCEPT !.pc = "rejected",
                         !.result = Error(RetryExhaustedError(previousErrors))]
          ELSE [g EXCEPT !.pc = "generateText",
                         !.calls = @ \o <<GenerateTextCall(g), GenerateTextCall(g)>>]

\* One activation of runGeminiThinkingPrompt up to its await: throw when
\* the retries are used up, otherwise build the prompt and call generateText.
RunGeminiThinkingPrompt(f, retryCount, previousErrors) ==
    LET g == [f EXCEPT !.retryCount = retryCount, !.previousErrors = previousErrors]
    IN  IF RetriesExhausted(retryCount)
          THEN [g EXCEPT !.pc = "rejected",
                         !.result = Error(RetryExhaustedError(previousErrors))]
          ELSE [g EXCEPT !.pc = "generateText",
                         !.calls = Append(@, GenerateTextCall(g))]

\* Variant: with the debug flag set a parse failure is rethrown, not retried.
AfterGenerateTextDebugRethrows(f, resp, debug) ==
    LET g == [f EXCEPT !.responses = Append(@, Resolved(resp)),
                       !.log = LogUsage(@, debug, resp.usage)]
        parsed == ParseResponse(f.args.schema, resp.text)
    IN  IF parsed.ok
          THEN [g EXCEPT !.pc = "fulfilled", !.result = Value(parsed.value)]
        ELSE IF debug
          THEN [g EXCEPT !.pc = "rejected", !.result = Error([message |-> parsed.message])]
        ELSE RunGeminiThinkingPrompt(
                 [g EXCEPT !.log = Append(@, FailureLine(parsed.message))],
                 f.retryCount + 1,
                 Append(f.previousErrors, [error |-> parsed.message, response |-> resp.text]))

\* The rest of the activation once generateText has resolved: log the usage,
\* parse and validate, return the value or recurse with the failure recorded.
AfterGenerateText(f, resp, debug) ==
    LET g == [f EXCEPT !.responses = Append(@, Resolved(resp)),
                       !.log = LogUsage(@, debug, resp.usage)]
        parsed == ParseResponse(f.args.schema, resp.text)
    IN  IF parsed.ok
          THEN [g EXCEPT !.pc = "fulfilled", !.result = Value(parsed.value)]
          ELSE RunGeminiThinkingPrompt(
                   [g EXCEPT !.log = Append(@, FailureLine(parsed.message))],
                   NextRetryCount(f.retryCount),
                   NextPreviousErrors(f.previousErrors, parsed.message, resp.text))

\* Variant: the await is inside the try block, so a provider error is caught
\* and retried like a parse failure.
AfterGenerateTextErrorRetried(f, err) ==
    RunGeminiThinkingPrompt(
        [f EXCEPT !.responses = Append(@, Rejected(err))],
        NextRetryCount(f.retryCount),
        NextPreviousErrors(f.previousErrors, err.message, ""))

\* A rejection of the awaited generateText is outside the try block: it is
\* not caught, and rejects the whole chain of activations up to runPrompt.
AfterGenerateTextError(f, err) ==
    [f EXCEPT !.responses = Append(@, Rejected(err)),
              !.pc = "rejected", !.result = Error(err)]

(* ---------------------------------------------------------------------- *)
(* runPrompt                                                               *)
(* ---------------------------------------------------------------------- *)

\* runPrompt up to its first await (or its throw).
RunPromptJob(req, cfg) ==
    LET model == Find(cfg.llmModel)
    IN  IF model = UndefinedModel
          THEN [Idle EXCEPT !.args = req, !.pc = "rejected",
                            !.result = Error(UnknownModelError(cfg.llmModel))]
          ELSE LET llm == CreateAi(model, cfg.llmApiKey)
                   f   == [Idle EXCEPT !.args = req, !.model = model, !.llm = llm,
                                       !.clients = <<llm>>]
               IN  IF IsGeminiThinking(model)
                     THEN RunGeminiThinkingPrompt(f, DefaultRetryCount, DefaultPreviousErrors)
                     ELSE [f EXCEPT !.pc = "generateObject",
                                    !.calls = Append(@, GenerateObjectCall(f))]

\* The rest of runPrompt once generateObject has resolved.
AfterGenerateObject(f, resp, debug) ==
    [f EXCEPT !.responses = Append(@, Resolved(resp)),
              !.log = LogUsage(@, debug, resp.usage),
              !.pc = "fulfilled", !.result = Value(resp.object)]

\* Variant: a failed generateObject falls back to the self-correcting loop.
AfterGenerateObjectErrorFallsBack(f, err) ==
    RunGeminiThinkingPrompt(
        [f EXCEPT !.responses = Append(@, Rejected(err))],
        DefaultRetryCount, DefaultPreviousErrors)

\* A rejection of the awaited generateObject rejects runPrompt.
AfterGenerateObjectError(f, err) ==
    [f EXCEPT !.responses = Append(@, Rejected(err)),
              !.pc = "rejected", !.result = Error(err)]

(* ---------------------------------------------------------------------- *)
(* Actions                                                                 *)
(* ---------------------------------------------------------------------- *)

\* The caller invokes runPrompt in a slot that holds no invocation in progress.
RunPrompt(i, req) ==
    /\ ~Suspended(inv[i])
    /\ started < MaxStarted
    /\ started' = started + 1
    /\ inv' = [inv EXCEPT ![i] = RunPromptJob(req, config)]
    /\ UNCHANGED <<registry, config, DEBUG>>

GenerateTextResolves(i, resp) ==
    /\ inv[i].pc = "generateText"
    /\ inv' = [inv EXCEPT ![i] = AfterGenerateText(@, resp, DEBUG[i])]
    /\ UNCHANGED <<registry, config, DEBUG, started>>

GenerateTextRejects(i, err) ==
    /\ inv[i].pc = "generateText"
    /\ inv' = [inv EXCEPT ![i] = AfterGenerateTextError(@, err)]
    /\ UNCHANGED <<registry, config, DEBUG, started>>

GenerateObjectResolves(i, resp) ==
    /\ inv[i].pc = "generateObject"
    /\ inv' = [inv EXCEPT ![i] = AfterGenerateObject(@, resp, DEBUG[i])]
    /\ UNCHANGED <<registry, config, DEBUG, started>>

GenerateObjectRejects(i, err) ==
    /\ inv[i].pc = "generateObject"
    /\ inv' = [inv EXCEPT ![i] = AfterGenerateObjectError(@, err)]
    /\ UNCHANGED <<registry, config, DEBUG, started>>

\* One process: every invocation sees the same process.env.DEBUG.
Init ==
    /\ registry = LLM_MODELS
    /\ config \in Configs
    /\ \E d \in BOOLEAN : DEBUG = [i \in Invocations |-> d]
    /\ started = 0
    /\ inv = [i \in Invocations |-> Idle]

\* Two separate runs that differ in the flag: each invocation is a run
\* with an environment of its own, one with DEBUG set and one without.
InitRuns ==
    /\ registry = LLM_MODELS
    /\ config \in Configs
    /\ DEBUG \in { d \in [Invocations -> BOOLEAN] : \E i, j \in Invocations : d[i] # d[j] }
    /\ started = 0
    /\ inv = [i \in Invocations |-> Idle]

Next ==
    \/ \E i \in Invocations, req \in Requests : RunPrompt(i, req)
    \/ \E i \in Invocations, resp \in TextResponses : GenerateTextResolves(i, resp)
    \/ \E i \in Invocations, err \in ProviderErrors : GenerateTextRejects(i, err)
    \/ \E i \in Invocations, resp \in ObjectResponses : GenerateObjectResolves(i, resp)
    \/ \E i \in Invocations, err \in ProviderErrors : GenerateObjectRejects(i, err)

Spec == Init /\ [][Next]_vars

SpecRuns == InitRuns /\ [][Next]_vars

\* The provider answers the call invocation i is suspended at: the awaited
\* promise resolves or rejects.
ProviderAnswers(i) ==
    \/ \E resp \in TextResponses : GenerateTextResolves(i, resp)
    \/ \E err \in ProviderErrors : GenerateTextRejects(i, err)
    \/ \E resp \in ObjectResponses : GenerateObjectResolves(i, resp)
    \/ \E err \in ProviderErrors : GenerateObjectRejects(i, err)

\* Every provider call eventually returns or fails, and the continuation of
\* the await then runs (the event loop runs every job that is ready).
FairSpec == Init /\ [][Next]_vars /\ \A i \in Invocations : WF_vars(ProviderAnswers(i))

(* ---------------------------------------------------------------------- *)
(* Vocabulary of the properties                                            *)
(* ---------------------------------------------------------------------- *)

\* The configured model is a registry entry whose name contains both
\* "gemini" and "thinking": runPrompt takes the self-correcting path.
ThinkingModelConfigured ==
    /\ config.llmModel \in RegistryNames
    /\ Includes(config.llmModel, "gemini")
    /\ Includes(config.llmModel, "thinking")

\* The configured model is a registry entry without both markers.
StructuredModelConfigured ==
    /\ config.llmModel \in RegistryNames
    /\ ~(Includes(config.llmModel, "gemini") /\ Includes(config.llmModel, "thinking"))

\* The text fails JSON parsing or fails validation against the schema.
FailsValidation(schema, text) ==
    \/ ~JSONParse(text).ok
    \/ ~SchemaParse(schema, JSONParse(text).value).ok

\* The error message the failing text produces.
FailureMessage(schema, text) ==
    IF ~JSONParse(text).ok THEN JSONParse(text).message
    ELSE SchemaParse(schema, JSONParse(text).value).message

\* Attempt k of invocation f got a text that failed / a text that passed /
\* a provider error.
AttemptFailed(f, k) ==
    /\ f.responses[k].settled = "resolved"
    /\ FailsValidation(f.args.schema, f.responses[k].with.text)
AttemptPassed(f, k) ==
    /\ f.responses[k].settled = "resolved"
    /\ ~FailsValidation(f.args.schema, f.responses[k].with.text)
AttemptErrored(f, k) == f.responses[k].settled = "rejected"

\* The entry previousErrors must hold for the failed attempt k.
FailureOf(f, k) ==
    [ error    |-> FailureMessage(f.args.schema, f.responses[k].with.text),
      response |-> f.responses[k].with.text ]

(* ---------------------------------------------------------------------- *)
(* C1                                                                      *)
(* ---------------------------------------------------------------------- *)

\* C1: when all 5 attempts of the self-correcting loop returned text that
\* fails parsing or validation, runPrompt is rejected with the
\* retry-exhausted error, whose message contains the error text of attempt
\* 5; exactly 5 provider calls were made, and no invocation ever makes a 6th.
C1_RetryExhausted ==
    \A i \in Invocations :
        LET f == inv[i]
        IN  /\ Len(f.calls) <= 5
            /\ ( /\ ThinkingModelConfigured
                 /\ Len(f.responses) = 5
                 /\ \A k \in 1..5 : AttemptFailed(f, k) )
               => /\ f.pc = "rejected"
                  /\ f.result.error.message[1] = "Failed to parse AI response as JSON after "
                  /\ f.result.error.message[2] = "5"
                  /\ f.result.error.message[4] = FailureOf(f, 5).error
                  /\ Len(f.calls) = 5
                  /\ \A k \in 1..5 : f.calls[k].fn = "generateText"

\* Five failed attempts whose first and last errors differ, then the rejection.
C1_Witness ==
    \E i \in Invocations :
        LET f == inv[i]
        IN  /\ ThinkingModelConfigured
            /\ Len(f.responses) = 5
            /\ \A k \in 1..5 : AttemptFailed(f, k)
            /\ FailureOf(f, 1).error # FailureOf(f, 5).error
            /\ f.pc = "rejected"

(* ---------------------------------------------------------------------- *)
(* C2                                                                      *)
(* ---------------------------------------------------------------------- *)

\* C2: for a thinking model and every N in 0..4, when the first N attempts
\* returned failing text and attempt N+1 returned schema-valid JSON,
\* runPrompt is resolved with the validated value after exactly N+1 provider
\* calls, and the previousErrors of the activation that made attempt N+1,
\* like the transcript in that attempt's system prompt, has exactly N entries, the k-th holding the error message and the raw
\* text of attempt k, in attempt order.
C2_SuccessAfterNFailures ==
    \A i \in Invocations : \A N \in 0..4 :
        LET f == inv[i]
        IN  ( /\ ThinkingModelConfigured
              /\ Len(f.responses) = N + 1
              /\ \A k \in 1..N : AttemptFailed(f, k)
              /\ AttemptPassed(f, N + 1) )
            => /\ f.pc = "fulfilled"
               /\ f.result = Value(SchemaParse(f.args.schema,
                                 JSONParse(f.responses[N + 1].with.text).value).value)
               /\ Len(f.calls) = N + 1
               /\ \A k \in 1..(N + 1) : f.calls[k].fn = "generateText"
               /\ f.retryCount = N
               /\ f.previousErrors = [k \in 1..N |-> FailureOf(f, k)]
               /\ f.calls[N + 1].system.hasTranscript = (N > 0)
               /\ f.calls[N + 1].system.previousAttempts =
                     [k \in 1..N |-> [attempt |-> k, error |-> FailureOf(f, k).error,
                                      response |-> FailureOf(f, k).response]]

\* Two failures with different errors, then a success whose validated value
\* is not the parsed JSON itself (a key outside the schema was stripped).
C2_Witness ==
    \E i \in Invocations :
        LET f == inv[i]
        IN  /\ ThinkingModelConfigured
            /\ Len(f.responses) = 3
            /\ AttemptFailed(f, 1) /\ AttemptFailed(f, 2) /\ AttemptPassed(f, 3)
            /\ FailureOf(f, 1) # FailureOf(f, 2)
            /\ f.pc = "fulfilled"
            /\ f.result = Value([x |-> 2])

(* ---------------------------------------------------------------------- *)
(* C3                                                                      *)
(* ---------------------------------------------------------------------- *)

\* C3: when the configured model name is not the name of a registry entry,
\* every runPrompt invocation is rejected with the unknown-model error
\* without having constructed a provider client, issued a provider call of
\* either kind, so nothing is retried.
C3_UnknownModelFailsFast ==
    \A i \in Invocations :
        LET f == inv[i]
        IN  (config.llmModel \notin RegistryNames /\ f.pc # "idle")
            => /\ f.pc = "rejected"
               /\ f.result = Error([message |-> <<"Unknown LLM model: ", config.llmModel>>])
               /\ f.clients = <<>>
               /\ f.calls = <<>>
               /\ f.responses = <<>>

\* An invocation rejected for a name that is a proper prefix of a registry name.
C3_Witness ==
    \E i \in Invocations :
        /\ config.llmModel = "gpt-4o"
        /\ config.llmModel \notin RegistryNames
        /\ inv[i].pc = "rejected"

(* ---------------------------------------------------------------------- *)
(* C4                                                                      *)
(* ---------------------------------------------------------------------- *)

\* C4: for a registry model whose name does not contain both "gemini" and
\* "thinking", a runPrompt invocation makes exactly one provider call, a
\* generateObject and never a generateText, and when that call has resolved
\* the object it returned is the value runPrompt is resolved with, unchanged.
C4_SingleStructuredCall ==
    \A i \in Invocations :
        LET f == inv[i]
        IN  (StructuredModelConfigured /\ f.pc # "idle")
            => /\ Len(f.calls) = 1
               /\ f.calls[1].fn = "generateObject"
               /\ f.calls[1].modelId = config.llmModel
               /\ Len(f.responses) <= 1
               /\ (f.pc = "generateObject") = (f.responses = <<>>)
               /\ \A r \in ObjectResponses :
                     f.responses = <<Resolved(r)>>
                        => f.pc = "fulfilled" /\ f.result = Value(r.object)

\* A gemini model without the thinking marker, resolved with the object x = 2.
C4_Witness ==
    \E i \in Invocations :
        /\ StructuredModelConfigured
        /\ Includes(config.llmModel, "gemini")
        /\ inv[i].pc = "fulfilled"
        /\ inv[i].responses[1].with.object = [x |-> 2]
        /\ inv[i].result = Value([x |-> 2])

(* ---------------------------------------------------------------------- *)
(* C5                                                                      *)
(* ---------------------------------------------------------------------- *)

\* C5: on the self-correcting path a provider error raised by the
\* generateText call of attempt k is not retried: it is the last response,
\* runPrompt is rejected with that very error after exactly k provider calls,
\* and previousErrors holds the k-1 earlier failures and nothing for attempt
\* k.  Every further attempt follows a parse or validation failure.
C5_ProviderErrorNotRetried ==
    \A i \in Invocations :
        LET f == inv[i]
        IN  (ThinkingModelConfigured /\ f.pc # "idle")
            => /\ \A k \in 1..Len(f.responses) :
                     AttemptErrored(f, k)
                        => /\ k = Len(f.responses)
                           /\ k <= 5
                           /\ f.pc = "rejected"
                           /\ f.result = Error(f.responses[k].with)
                           /\ Len(f.calls) = k
                           /\ f.retryCount = k - 1
                           /\ f.previousErrors = [j \in 1..(k - 1) |-> FailureOf(f, j)]
               /\ \A k \in 2..Len(f.calls) : AttemptFailed(f, k - 1)

\* A provider error on the third attempt, after two failures.
C5_Witness ==
    \E i \in Invocations :
        LET f == inv[i]
        IN  /\ ThinkingModelConfigured
            /\ Len(f.responses) = 3
            /\ AttemptFailed(f, 1) /\ AttemptFailed(f, 2) /\ AttemptErrored(f, 3)
            /\ f.pc = "rejected"
            /\ f.result = Error([message |-> "429 Too Many Requests"])

(* ---------------------------------------------------------------------- *)
(* C6                                                                      *)
(* ---------------------------------------------------------------------- *)

\* C6: on the native structured path a failure of the generateObject call
\* is the rejection of runPrompt: the invocation is rejected with that
\* error, it made that one call and no other of either kind, and it never
\* entered the self-correcting loop (no retry state, no failure recorded).
C6_StructuredFailurePropagates ==
    \A i \in Invocations :
        LET f == inv[i]
        IN  ( /\ StructuredModelConfigured
              /\ Len(f.responses) >= 1
              /\ f.responses[1].settled = "rejected" )
            => /\ f.pc = "rejected"
               /\ f.result = Error(f.responses[1].with)
               /\ Len(f.responses) = 1
               /\ Len(f.calls) = 1
               /\ f.calls[1].fn = "generateObject"
               /\ f.retryCount = 0
               /\ f.previousErrors = <<>>

\* An OpenAI model whose generateObject call failed with a network error.
C6_Witness ==
    \E i \in Invocations :
        /\ config.llmModel = "o1"
        /\ StructuredModelConfigured
        /\ inv[i].responses = <<Rejected([message |-> "fetch failed"])>>
        /\ inv[i].pc = "rejected"

(* ---------------------------------------------------------------------- *)
(* C7                                                                      *)
(* ---------------------------------------------------------------------- *)

\* C7: a settled invocation on the self-correcting path is either resolved
\* with the value that the text of its last attempt yields after passing
\* both JSON parsing and schema validation, or rejected with an error; a
\* text that failed is never what runPrompt is resolved with; and a passing
\* attempt is always the last one: the invocation is resolved right there,
\* with as many calls as responses.
C7_ValidatedValueOrRejection ==
    \A i \in Invocations :
        LET f == inv[i]
            n == Len(f.responses)
        IN  (ThinkingModelConfigured /\ f.pc # "idle")
            => /\ f.pc = "fulfilled"
                    => /\ n >= 1
                       /\ f.responses[n].settled = "resolved"
                       /\ JSONParse(f.responses[n].with.text).ok
                       /\ SchemaParse(f.args.schema, JSONParse(f.responses[n].with.text).value).ok
                       /\ f.result = Value(SchemaParse(f.args.schema,
                                         JSONParse(f.responses[n].with.text).value).value)
               /\ f.pc = "rejected" => DOMAIN f.result = {"error"}
               /\ \A k \in 1..n :
                     AttemptPassed(f, k)
                        => k = n /\ f.pc = "fulfilled" /\ Len(f.calls) = n /\ f.retryCount = n - 1

\* Resolved at retryCount 4, on the fifth attempt, with the validated value.
C7_Witness ==
    \E i \in Invocations :
        LET f == inv[i]
        IN  /\ ThinkingModelConfigured
            /\ f.pc = "fulfilled"
            /\ f.retryCount = 4
            /\ Len(f.responses) = 5
            /\ f.responses[5].with.text = "{\"x\":2,\"y\":3}"
            /\ f.result = Value([x |-> 2])

(* ---------------------------------------------------------------------- *)
(* C8                                                                      *)
(* ---------------------------------------------------------------------- *)

IsPrefix(s, t) == Len(s) <= Len(t) /\ s = SubSeq(t, 1, Len(s))

\* C8: two invocations with the same prompt, systemPrompt and schema on the
\* same model that have received the same sequence of provider responses
\* have made the same provider calls with the same augmented system
\* prompts, hold the same retryCount and previousErrors and are in the same
\* position with the same outcome; and when one has received a prefix of
\* what the other received, its calls are a prefix of the other's calls.
C8_Deterministic ==
    \A i, j \in Invocations :
        LET f == inv[i]
            g == inv[j]
        IN  (i # j /\ f.pc # "idle" /\ g.pc # "idle" /\ f.args = g.args)
            => /\ f.responses = g.responses
                    => /\ f.calls = g.calls
                       /\ f.retryCount = g.retryCount
                       /\ f.previousErrors = g.previousErrors
                       /\ f.pc = g.pc
                       /\ f.result = g.result
               /\ IsPrefix(f.responses, g.responses) => IsPrefix(f.calls, g.calls)

\* Two invocations that both got the same two failures and then the same
\* valid text, and are both resolved.
C8_Witness ==
    \E i, j \in Invocations :
        LET f == inv[i]
            g == inv[j]
        IN  /\ i # j
            /\ ThinkingModelConfigured
            /\ f.args = g.args
            /\ f.responses = g.responses
            /\ Len(f.responses) = 3
            /\ AttemptFailed(f, 1) /\ AttemptFailed(f, 2) /\ AttemptPassed(f, 3)
            /\ f.pc = "fulfilled" /\ g.pc = "fulfilled"

(* ---------------------------------------------------------------------- *)
(* C9                                                                      *)
(* ---------------------------------------------------------------------- *)

\* The continuation that a provider answer resumes.
Deliver(f, r, debug) ==
    CASE f.pc = "generateText" /\ r.settled = "resolved"   -> AfterGenerateText(f, r.with, debug)
      [] f.pc = "generateText" /\ r.settled = "rejected"   -> AfterGenerateTextError(f, r.with)
      [] f.pc = "generateObject" /\ r.settled = "resolved" -> AfterGenerateObject(f, r.with, debug)
      [] f.pc = "generateObject" /\ r.settled = "rejected" -> AfterGenerateObjectError(f, r.with)
      [] OTHER -> f

RECURSIVE Replay(_, _, _)
Replay(f, answers, debug) ==
    IF answers = <<>> THEN f
    ELSE Replay(Deliver(f, Head(answers), debug), Tail(answers), debug)

\* One invocation run on its own, start to finish, against the given answers.
RunAlone(req, cfg, debug, answers) == Replay(RunPromptJob(req, cfg), answers, debug)

\* C9: under every interleaving of the invocations, each invocation's
\* retryCount counts the failed attempts of this invocation, its
\* previousErrors holds exactly the failures of its own attempts in order,
\* and its calls, position and outcome (its whole state) are what the same
\* invocation reaches when it runs alone against the answers it received.
C9_InvocationsIndependent ==
    \A i \in Invocations :
        LET f == inv[i]
        IN  f.pc # "idle"
            => /\ ThinkingModelConfigured
                    => /\ f.retryCount =
                             Cardinality({ k \in 1..Len(f.responses) : AttemptFailed(f, k) })
                       /\ f.previousErrors = [k \in 1..f.retryCount |-> FailureOf(f, k)]
               /\ ~ThinkingModelConfigured
                    => f.retryCount = 0 /\ f.previousErrors = <<>>
               /\ f = RunAlone(f.args, config, DEBUG[i], f.responses)

\* Two invocations suspended at their provider calls at the same time, each
\* after failures of its own that differ from the other's.
C9_Witness ==
    \E i, j \in Invocations :
        /\ i # j
        /\ inv[i].pc = "generateText" /\ inv[j].pc = "generateText"
        /\ inv[i].retryCount = 2 /\ inv[j].retryCount = 3
        /\ inv[i].previousErrors[1] # inv[j].previousErrors[1]
        /\ inv[i].previousErrors[2] # inv[j].previousErrors[2]

(* ---------------------------------------------------------------------- *)
(* C10                                                                     *)
(* ---------------------------------------------------------------------- *)

\* C10: two runs that differ in whether the debug flag is set, with the same
\* arguments and the same provider responses, have made the same provider
\* calls with the same arguments and are in the same position with the same
\* returned value or error, on either path.
C10_DebugFlagNoEffect ==
    \A i, j \in Invocations :
        LET f == inv[i]
            g == inv[j]
        IN  ( /\ DEBUG[i] # DEBUG[j]
              /\ f.pc # "idle" /\ g.pc # "idle"
              /\ f.args = g.args
              /\ f.responses = g.responses )
            => /\ f.calls = g.calls
               /\ f.pc = g.pc
               /\ f.result = g.result

\* Two runs on the self-correcting path, one with the flag and one without,
\* that got the same failure and then the same valid text: both resolved,
\* and only their log lines differ.
C10_Witness ==
    \E i, j \in Invocations :
        LET f == inv[i]
            g == inv[j]
        IN  /\ DEBUG[i] /\ ~DEBUG[j]
            /\ ThinkingModelConfigured
            /\ f.responses = g.responses
            /\ Len(f.responses) = 2
            /\ f.pc = "fulfilled" /\ g.pc = "fulfilled"
            /\ f.log # g.log

(* ---------------------------------------------------------------------- *)
(* C11                                                                     *)
(* ---------------------------------------------------------------------- *)

\* The lines of a log that report usage metadata.
UsageLines(log) == { k \in 1..Len(log) : log[k].line = "usage" }

\* C11 as stated: when the debug flag is not set, an invocation emits no
\* line to the log sink, on either path, failed attempts included.
C11_NoLogWithoutDebug ==
    \A i \in Invocations : ~DEBUG[i] => inv[i].log = <<>>

\* C11, amended: the usage lines are gated by the debug flag and the
\* parse-failure lines are not.  Without the flag no usage line is emitted
\* on either path, and the log of an invocation is exactly one
\* "Failed to parse AI response as JSON" line per failed attempt, in attempt
\* order, each with that attempt's error message (so no line at all on the
\* structured path).  With the flag there is in addition one usage line per
\* provider call that resolved.
C11_UsageLinesGated ==
    \A i \in Invocations :
        LET f == inv[i]
            resolved == { k \in 1..Len(f.responses) : f.responses[k].settled = "resolved" }
        IN  f.pc # "idle"
            => /\ ~DEBUG[i] => UsageLines(f.log) = {}
               /\ DEBUG[i] => Cardinality(UsageLines(f.log)) = Cardinality(resolved)
               /\ ~DEBUG[i] /\ ThinkingModelConfigured
                    => f.log = [k \in 1..f.retryCount |-> FailureLine(FailureOf(f, k).error)]
               /\ ~DEBUG[i] /\ ~ThinkingModelConfigured => f.log = <<>>

\* Without the flag, two attempts failed and then a provider error: two
\* failure lines in the log and nothing else.
C11_Witness ==
    \E i \in Invocations :
        LET f == inv[i]
        IN  /\ ~DEBUG[i]
            /\ ThinkingModelConfigured
            /\ Len(f.responses) = 3
            /\ AttemptFailed(f, 1) /\ AttemptFailed(f, 2)
            /\ Len(f.log) = 2
            /\ UsageLines(f.log) = {}

(* ---------------------------------------------------------------------- *)
(* C12                                                                     *)
(* ---------------------------------------------------------------------- *)

\* C12: the registry is never changed by an invocation (it is, in every
\* state, the list the module defines, 13 entries), no two of its entries
\* have the same name, and the lookup predicate therefore matches at most
\* one entry for the configured name, whichever it is.
C12_RegistryImmutableUnique ==
    /\ registry = LLM_MODELS
    /\ Len(registry) = 13
    /\ \A a, b \in 1..Len(registry) : registry[a].name = registry[b].name => a = b
    /\ Cardinality({ k \in 1..Len(registry) : NameMatches(registry[k], config.llmModel) }) <= 1
    /\ \A i \in Invocations :
          inv[i].model # UndefinedModel
             => \E k \in 1..Len(registry) : inv[i].model = registry[k]

\* Both invocations have looked their model up and one is already resolved;
\* the registry is as it was.
C12_Witness ==
    /\ started = 2
    /\ registry = LLM_MODELS
    /\ \E i \in Invocations : inv[i].pc = "fulfilled" /\ inv[i].model = registry[13]

(* ---------------------------------------------------------------------- *)
(* C13                                                                     *)
(* ---------------------------------------------------------------------- *)

CallKinds(f) == { f.calls[k].fn : k \in 1..Len(f.calls) }

\* C13: for a registry model an invocation issues generateText calls, and
\* only those, exactly when the model name contains both "gemini" and
\* "thinking", and generateObject calls, and only those, otherwise; no
\* invocation ever issues both kinds of call.
C13_DispatchExclusive ==
    \A i \in Invocations :
        LET f == inv[i]
        IN  /\ Cardinality(CallKinds(f)) <= 1
            /\ (config.llmModel \in RegistryNames /\ f.pc # "idle")
               => CallKinds(f) =
                     IF Includes(config.llmModel, "gemini") /\ Includes(config.llmModel, "thinking")
                       THEN {"generateText"} ELSE {"generateObject"}

\* A gemini model without the thinking marker took the structured call, in
\* both invocations, one of them still suspended at it.
C13_Witness ==
    \E i, j \in Invocations :
        /\ i # j
        /\ config.llmModel = "gemini-2.0-pro-exp-02-05"
        /\ CallKinds(inv[i]) = {"generateObject"}
        /\ inv[i].pc = "generateObject"
        /\ inv[j].pc = "rejected"

(* ---------------------------------------------------------------------- *)
(* C14                                                                     *)
(* ---------------------------------------------------------------------- *)

\* C14: every attempt of a self-correcting invocation is called with the
\* caller's prompt, the configured model name and the one client the
\* invocation constructed, under a system prompt that starts from the
\* caller's systemPrompt (or "") and the same schema description; the
\* system prompt of attempt k carries a transcript exactly when k > 1, and
\* the transcript lists every prior attempt 1..k-1 with its error and its
\* raw text.  The arguments, model and client the invocation holds do not
\* change while it runs.
C14_AttemptArgumentsFrame ==
    \A i \in Invocations :
        LET f == inv[i]
            n == Len(f.calls)
        IN  (ThinkingModelConfigured /\ f.pc # "idle")
            => /\ f.args \in Requests
               /\ f.model.name = config.llmModel
               /\ f.clients = <<f.llm>>
               /\ f.llm = [createAi |-> "createGoogleGenerativeAI", apiKey |-> config.llmApiKey]
               /\ \A k \in 1..n :
                     LET c == f.calls[k]
                     IN  /\ c.prompt = f.args.prompt
                         /\ c.modelId = config.llmModel
                         /\ c.llm = f.clients[1]
                         /\ c.system.systemPrompt =
                               (IF f.args.systemPrompt = Undefined THEN "" ELSE f.args.systemPrompt)
                         /\ c.system.schemaDescription = f.calls[1].system.schemaDescription
                         /\ c.system.hasTranscript = (k > 1)
                         /\ Len(c.system.previousAttempts) = k - 1
                         /\ k < n => c.system.previousAttempts =
                                        SubSeq(f.calls[k + 1].system.previousAttempts, 1, k - 1)
               /\ n >= 1
                    => f.calls[n].system.previousAttempts =
                          [j \in 1..(n - 1) |->
                              [attempt |-> j, error |-> FailureOf(f, j).error,
                               response |-> FailureOf(f, j).response]]

\* A fourth attempt is in flight: its system prompt lists the three prior
\* attempts, which did not all fail the same way.
C14_Witness ==
    \E i \in Invocations :
        LET f == inv[i]
        IN  /\ ThinkingModelConfigured
            /\ f.pc = "generateText"
            /\ Len(f.calls) = 4
            /\ Len(f.calls[4].system.previousAttempts) = 3
            /\ f.calls[4].system.previousAttempts[1].error
                  # f.calls[4].system.previousAttempts[3].error
            /\ ~f.calls[1].system.hasTranscript

(* ---------------------------------------------------------------------- *)
(* C15                                                                     *)
(* ---------------------------------------------------------------------- *)

\* C15: provided every provider call eventually returns or fails, every
\* invocation on a thinking model is eventually resolved or rejected,
\* whatever the provider answers (it is, again and again, not suspended at
\* generateText: a suspended invocation only leaves that position by a
\* further call or by settling, and calls are limited), and no such
\* invocation ever makes more than 5 provider calls.
C15_LoopTerminates ==
    /\ [](\A i \in Invocations : ThinkingModelConfigured => Len(inv[i].calls) <= 5)
    /\ \A i \in Invocations :
          []<>(ThinkingModelConfigured => (inv[i].pc = "idle" \/ Settled(inv[i])))

\* Both invocations on the thinking model have ended, one of them by using
\* up all 5 calls and the other at its first call.
C15_Witness ==
    \E i, j \in Invocations :
        /\ ThinkingModelConfigured
        /\ Settled(inv[i]) /\ Settled(inv[j])
        /\ Len(inv[i].calls) = 5 /\ inv[i].retryCount = 5
        /\ Len(inv[j].calls) = 1

(* ---------------------------------------------------------------------- *)
(* C16                                                                     *)
(* ---------------------------------------------------------------------- *)

\* C16: in every activation of the loop reached from runPrompt the length
\* of previousErrors equals retryCount, and retryCount is the number of
\* provider calls made before the activation (so the invocation has made
\* retryCount + 1 calls once the activation has issued its own, and
\* retryCount calls in the terminal activation, which issues none).  The
\* terminal activation has retryCount = 5 and a non-empty previousErrors,
\* and the "Latest error" of its message is the error of previousErrors'
\* last entry, not the text "undefined".
C16_ErrorsMatchRetryCount ==
    \A i \in Invocations :
        LET f == inv[i]
        IN  (ThinkingModelConfigured /\ f.pc # "idle")
            => /\ Len(f.previousErrors) = f.retryCount
               /\ f.retryCount \in 0..5
               /\ f.retryCount < 5 => Len(f.calls) = f.retryCount + 1
               /\ f.retryCount = 5
                    => /\ Len(f.calls) = 5
                       /\ f.pc = "rejected"
                       /\ f.previousErrors # <<>>
                       /\ f.result.error.message[4] = f.previousErrors[5].error
                       /\ f.result.error.message[4] # "undefined"

\* The terminal activation: retryCount 5, five recorded failures, and the
\* schema error of the last one in the message.
C16_Witness ==
    \E i \in Invocations :
        LET f == inv[i]
        IN  /\ ThinkingModelConfigured
            /\ f.retryCount = 5
            /\ Len(f.previousErrors) = 5
            /\ f.pc = "rejected"
            /\ f.result.error.message[4] = "Expected number, received string"

(* ---------------------------------------------------------------------- *)
(* C17                                                                     *)
(* ---------------------------------------------------------------------- *)

\* C17: the provider calls of one invocation are strictly sequential.  An
\* invocation has one call more than it has responses exactly while it is
\* suspended, and as many otherwise, so never two calls in flight; every
\* call after the first was issued after the response to the call before
\* it, and that response was a text that failed parsing or validation; no
\* call follows a passing attempt or a provider error.
C17_CallsSequential ==
    \A i \in Invocations :
        LET f == inv[i]
        IN  /\ Len(f.calls) = Len(f.responses) + (IF Suspended(f) THEN 1 ELSE 0)
            /\ (ThinkingModelConfigured /\ f.pc # "idle")
               => /\ \A k \in 2..Len(f.calls) : AttemptFailed(f, k - 1)
                  /\ \A k \in 1..Len(f.responses) :
                        ~AttemptFailed(f, k) => Len(f.calls) = k /\ Settled(f)

\* Both invocations are suspended at a provider call, one at its second
\* attempt and one at its fourth: each has exactly one call in flight.
C17_Witness ==
    \E i, j \in Invocations :
        /\ inv[i].pc = "generateText" /\ inv[j].pc = "generateText"
        /\ Len(inv[i].calls) = 2 /\ Len(inv[i].responses) = 1
        /\ Len(inv[j].calls) = 4 /\ Len(inv[j].responses) = 3

====
